---- MODULE Spec2Model ----
(***************************************************************************)
(* Model of src/an.py: the webcam animal-detection script.  One process,   *)
(* one thread: open the camera, then loop  read -> infer -> annotate ->    *)
(* cooldown gate -> snapshot + POST -> stamp last_sent -> imshow ->        *)
(* waitKey, inside try / except KeyboardInterrupt / finally.               *)
(*                                                                         *)
(* Time is the wall clock shared by time() and datetime.now(), counted in  *)
(* ticks of 1/TicksPerSec second, and it never goes backwards.             *)
(***************************************************************************)
EXTENDS Integers, Sequences, FiniteSets

VARIABLES
    pc,         \* position of the single thread in the script
    now,        \* the wall clock, in ticks
    cap,        \* the capture device: "created", "opened", "failed", "released"
    windows,    \* display windows: "none", "shown", "destroyed"
    last_sent,  \* an.py:39, an.py:81 (ticks)
    df,         \* labels of the detections of the current frame (an.py:52)
    detected,   \* an.py:54, an.py:60
    drawn,      \* labels of the boxes drawn on the current frame (an.py:65-67)
    filename,   \* an.py:71, the second the name was formatted from (NoTime: none)
    files,      \* snapshot files in the working directory, by name
    overwrote,  \* TRUE once cv2.imwrite wrote to a name that already existed
    nqual,      \* frames so far that held an allow-listed detection, counted
                \* up to MaxQual (history)
    up,         \* whether the current iteration entered the if at an.py:70
    uploads,    \* one record per upload attempt of this run, oldest first (history)
    exitcause   \* why the loop or the process ended

vars == <<pc, now, cap, windows, last_sent, df, detected, drawn, filename,
          files, overwrote, nqual, up, uploads,
          exitcause>>

----------------------------------------------------------------------------
(* Bounds of the model *)

TicksPerSec == 2          \* clock resolution of the model: ticks per second
MaxTime == 23             \* the clock stops advancing at this tick
MaxQual == 2              \* qualifying frames are counted up to this number
MaxDet == 2               \* at most this many detections per frame

(* Program constants *)

COOLDOWN == 5             \* an.py:38, seconds

ANIMALS == {"dog", "cat", "bird", "cow", "sheep", "horse"}

\* Labels the detector reports in the model: one of the allow-list, one outside.
Labels == {"dog", "person"}

NoTime == 0 - 1

\* time() values differ by more than COOLDOWN seconds
CooldownTicks == COOLDOWN * TicksPerSec

\* Clock readings at process start: the epoch, and just around COOLDOWN seconds.
StartTimes == {0, CooldownTicks, CooldownTicks + 1}

\* The detection tables the model feeds in: label sequences up to MaxDet long.
Tables == UNION {[1..n -> Labels] : n \in 0..MaxDet}

----------------------------------------------------------------------------
(* Pure parts of the iteration *)

\* Mutant of AnyMatch: every detection counts, allow-listed or not
AnyMatch_any(rows) == rows # <<>>

\* an.py:57-60: detected is set by any row whose label is in ANIMALS
RECURSIVE AnyMatch(_)
AnyMatch(rows) ==
    IF rows = <<>> THEN FALSE
    ELSE IF Head(rows) \in ANIMALS THEN TRUE ELSE AnyMatch(Tail(rows))

\* an.py:57-67: the boxes drawn, in detection order, one per allow-listed row
RECURSIVE Boxes(_)
Boxes(rows) ==
    IF rows = <<>> THEN <<>>
    ELSE IF Head(rows) \in ANIMALS
         THEN <<Head(rows)>> \o Boxes(Tail(rows))
         ELSE Boxes(Tail(rows))

\* Mutant of should_upload: the comparison is not strict
should_upload_ge(any_match, t, last) ==
    any_match /\ (t - last >= CooldownTicks)

\* Mutant of should_upload: the elapsed time is truncated to whole seconds
\* before it is compared
should_upload_trunc(any_match, t, last) ==
    any_match /\ ((t - last) \div TicksPerSec > COOLDOWN)

\* an.py:70: detected and (time() - last_sent > COOLDOWN)
should_upload(any_match, t, last) ==
    any_match /\ (t - last > CooldownTicks)

\* Mutant of Stamp: the name is formatted to the minute ('%Y%m%d_%H%M')
Stamp_minutes(t) == t \div (60 * TicksPerSec)

\* an.py:71: strftime('%Y%m%d_%H%M%S') keeps whole seconds only
Stamp(t) == t \div TicksPerSec

\* an.py:39
InitLastSent == 0

----------------------------------------------------------------------------
(* The history of upload attempts *)

\* An attempt starts when an.py:70 is true: t is the time() value read there.
\* name is the second its file name was formatted from (an.py:71), res how the
\* try block at an.py:74-79 ended, end the time() value an.py:81 stored.
Attempt(t) == [t |-> t, name |-> NoTime, res |-> "none", end |-> NoTime]

\* The attempt in progress is the newest one
SetLast(q, f, v) == [q EXCEPT ![Len(q)] = [@ EXCEPT ![f] = v]]

----------------------------------------------------------------------------
Init ==
    /\ pc = "open"
    /\ now \in StartTimes
    /\ cap = "created"
    /\ windows = "none"
    /\ last_sent = InitLastSent
    /\ df = <<>>
    /\ detected = FALSE
    /\ drawn = <<>>
    /\ filename = NoTime
    /\ files = {}
    /\ overwrote = FALSE
    /\ nqual = 0
    /\ up = FALSE
    /\ uploads = <<>>
    /\ exitcause = "none"

\* Positions inside the try block (an.py:41-88)
InTry == {"read", "infer", "gate", "name", "imwrite", "post", "stamp",
          "imshow", "waitkey"}

\* Positions where the thread waits long enough for the clock to be seen to
\* move: cap.read(), model(frame), between time() and datetime.now(), and the
\* snapshot write and POST.
Waits == {"read", "infer", "name", "post"}

\* The camera, the windows and the files on disk
dev == <<cap, windows, files, overwrote>>
\* The variables of the detection loop at an.py:52-67
det == <<df, detected, drawn, nqual>>

Tick ==
    /\ pc \in Waits
    /\ now < MaxTime
    /\ now' = now + 1
    /\ UNCHANGED <<pc, dev, det, last_sent, filename, up, uploads,
                   exitcause>>

\* an.py:23-31: the camera opened
OpenOk ==
    /\ pc = "open"
    /\ cap' = "opened"
    /\ pc' = "read"
    /\ UNCHANGED <<now, windows, files, overwrote, det, last_sent, filename,
                   up, uploads, exitcause>>

\* an.py:27-29: the camera did not open; exit() ends the process here
OpenFail ==
    /\ pc = "open"
    /\ cap' = "failed"
    /\ pc' = "exited"
    /\ exitcause' = "camfail"
    /\ UNCHANGED <<now, windows, files, overwrote, det, last_sent, filename,
                   up, uploads>>

\* an.py:44: a frame arrives, with nothing drawn on it yet
ReadFrame ==
    /\ pc = "read"
    /\ up' = FALSE
    /\ pc' = "infer"
    /\ UNCHANGED <<now, dev, det, last_sent, filename, uploads, exitcause>>

\* an.py:45-47: ret is False, break
ReadEnd ==
    /\ pc = "read"
    /\ exitcause' = "eos"
    /\ pc' = "release"
    /\ UNCHANGED <<now, dev, det, last_sent, filename, up, uploads>>

\* an.py:51-67: inference, then the detection loop
Detect ==
    /\ pc = "infer"
    /\ \E rows \in Tables :
         /\ df' = rows
         /\ detected' = AnyMatch(rows)
         /\ drawn' = Boxes(rows)
         /\ nqual' = IF AnyMatch(rows) /\ nqual < MaxQual
                     THEN nqual + 1 ELSE nqual
    /\ pc' = "gate"
    /\ UNCHANGED <<now, dev, last_sent, filename, up, uploads,
                   exitcause>>

\* an.py:70
Gate ==
    /\ pc = "gate"
    /\ LET go == should_upload(detected, now, last_sent) IN
         /\ up' = go
         /\ uploads' = IF go THEN Append(uploads, Attempt(now)) ELSE uploads
         /\ pc' = IF go THEN "name" ELSE "imshow"
    /\ UNCHANGED <<now, dev, det, last_sent, filename, exitcause>>

\* an.py:71
Name ==
    /\ pc = "name"
    /\ filename' = Stamp(now)
    /\ uploads' = SetLast(uploads, "name", Stamp(now))
    /\ pc' = "imwrite"
    /\ UNCHANGED <<now, dev, det, last_sent, up, exitcause>>

\* an.py:72: the snapshot is written
WriteOk ==
    /\ pc = "imwrite"
    /\ files' = files \cup {filename}
    /\ overwrote' = (overwrote \/ filename \in files)
    /\ pc' = "post"
    /\ UNCHANGED <<now, cap, windows, det, last_sent, filename, up,
                   uploads, exitcause>>

\* an.py:72: cv2.imwrite returns False, nothing is written, nothing is raised
WriteFalse ==
    /\ pc = "imwrite"
    /\ pc' = "post"
    /\ UNCHANGED <<now, dev, det, last_sent, filename, up, uploads,
                   exitcause>>

\* an.py:75-77: open() and the POST return
PostOk ==
    /\ pc = "post"
    /\ filename \in files
    /\ uploads' = SetLast(uploads, "res", "sent")
    /\ pc' = "stamp"
    /\ UNCHANGED <<now, dev, det, last_sent, filename, up, exitcause>>

\* an.py:75-79: open() or requests.post raises an Exception, caught and printed
PostFail ==
    /\ pc = "post"
    /\ uploads' = SetLast(uploads, "res", "failed")
    /\ pc' = "stamp"
    /\ UNCHANGED <<now, dev, det, last_sent, filename, up, exitcause>>

\* Mutant of StampSent: last_sent is not assigned
StampSent_forget ==
    /\ pc = "stamp"
    /\ uploads' = SetLast(uploads, "end", now)
    /\ pc' = "imshow"
    /\ UNCHANGED <<now, dev, det, last_sent, filename, up, exitcause>>

\* an.py:81
StampSent ==
    /\ pc = "stamp"
    /\ last_sent' = now
    /\ uploads' = SetLast(uploads, "end", now)
    /\ pc' = "imshow"
    /\ UNCHANGED <<now, dev, det, filename, up, exitcause>>

\* an.py:84
Show ==
    /\ pc = "imshow"
    /\ windows' = "shown"
    /\ pc' = "waitkey"
    /\ UNCHANGED <<now, cap, files, overwrote, det, last_sent, filename,
                   up, uploads, exitcause>>

\* an.py:87: no 'q', next iteration
KeyNone ==
    /\ pc = "waitkey"
    /\ pc' = "read"
    /\ UNCHANGED <<now, dev, det, last_sent, filename, up, uploads,
                   exitcause>>

\* an.py:87-88: 'q', break
KeyQuit ==
    /\ pc = "waitkey"
    /\ exitcause' = "quit"
    /\ pc' = "release"
    /\ UNCHANGED <<now, dev, det, last_sent, filename, up, uploads>>

\* Calls of the iteration that can raise an exception nothing catches:
\* model(frame) an.py:51, cv2.imwrite an.py:72, cv2.imshow an.py:84.
RaiseSites == {"infer", "imwrite", "imshow"}

\* Mutant of Raise: the cleanup is not in a finally block
Raise_nocleanup ==
    /\ pc \in RaiseSites
    /\ exitcause' = pc
    /\ pc' = "exited"
    /\ UNCHANGED <<now, dev, det, last_sent, filename, up, uploads>>

\* an.py:41-93: an uncaught exception leaves the loop through finally
Raise ==
    /\ pc \in RaiseSites
    /\ exitcause' = pc
    /\ pc' = "release"
    /\ UNCHANGED <<now, dev, det, last_sent, filename, up, uploads>>

\* an.py:90-91: Ctrl+C inside the try block (except Exception at an.py:78 does
\* not catch KeyboardInterrupt)
Interrupt ==
    /\ pc \in InTry
    /\ exitcause' = "interrupt"
    /\ pc' = "except"
    /\ UNCHANGED <<now, dev, det, last_sent, filename, up, uploads>>

\* an.py:23-39: Ctrl+C before the try block is entered ends the process
InterruptSetup ==
    /\ pc = "open"
    /\ exitcause' = "interrupt_setup"
    /\ pc' = "exited"
    /\ UNCHANGED <<now, dev, det, last_sent, filename, up, uploads>>

\* Mutant of Except: the handler sits inside the loop and the loop goes on
Except_resume ==
    /\ pc = "except"
    /\ pc' = "read"
    /\ UNCHANGED <<now, dev, det, last_sent, filename, up, uploads,
                   exitcause>>

\* an.py:91
Except ==
    /\ pc = "except"
    /\ pc' = "release"
    /\ UNCHANGED <<now, dev, det, last_sent, filename, up, uploads,
                   exitcause>>

\* an.py:94
Release ==
    /\ pc = "release"
    /\ cap' = "released"
    /\ pc' = "destroy"
    /\ UNCHANGED <<now, windows, files, overwrote, det, last_sent, filename,
                   up, uploads, exitcause>>

\* an.py:95
Destroy ==
    /\ pc = "destroy"
    /\ windows' = "destroyed"
    /\ pc' = "exited"
    /\ UNCHANGED <<now, cap, files, overwrote, det, last_sent, filename,
                   up, uploads, exitcause>>

Next ==
    \/ Tick
    \/ OpenOk
    \/ OpenFail
    \/ ReadFrame
    \/ ReadEnd
    \/ Detect
    \/ Gate
    \/ Name
    \/ WriteOk
    \/ WriteFalse
    \/ PostOk
    \/ PostFail
    \/ StampSent
    \/ Show
    \/ KeyNone
    \/ KeyQuit
    \/ Raise
    \/ Interrupt
    \/ InterruptSetup
    \/ Except
    \/ Release
    \/ Destroy

Spec == Init /\ [][Next]_vars

----------------------------------------------------------------------------
(* Vocabulary of the properties *)

\* The time of a frame's detection is the time() value read for it at
\* an.py:70: no wait lies between the detection loop and that read.

\* Inside the if body at an.py:71-81: an upload attempt is in progress
Attempting == pc \in {"name", "imwrite", "post", "stamp"}

\* The current frame has an allow-listed detection and the condition at
\* an.py:70 was false for it; the clock still shows the time() read there
\* (no wait lies between an.py:70 and an.py:84).
Suppressed == pc = "imshow" /\ detected /\ ~up

\* The current frame's attempt ran to an.py:81
Uploaded == pc = "imshow" /\ up

\* The loop as RUNNING / STOPPING / STOPPED
Running == pc \in InTry
Stopping == pc \in {"except", "release", "destroy"}
LoopExits == {"eos", "quit", "interrupt"} \cup RaiseSites
Stopped == pc = "exited" /\ exitcause \in LoopExits

\* The end of the newest finished attempt whose POST returned, else the
\* initial value of last_sent
RECURSIVE LastOkEnd(_)
LastOkEnd(q) ==
    IF q = <<>> THEN InitLastSent
    ELSE LET a == q[Len(q)] IN
         IF a.res = "sent" /\ a.end # NoTime THEN a.end
         ELSE LastOkEnd(SubSeq(q, 1, Len(q) - 1))

----------------------------------------------------------------------------
(* C1: cooldown, suppression half.  Any two upload attempts of one run are  *)
(* more than COOLDOWN seconds apart (the later one starts more than         *)
(* COOLDOWN after the earlier one finished), and a qualifying frame that is *)
(* suppressed at time t has at most one upload attempt in [t - COOLDOWN, t],*)
(* so two qualifying frames at most COOLDOWN apart see at most one upload.  *)
C1_UploadsApart ==
    /\ \A i, j \in 1..Len(uploads) :
         i < j => /\ uploads[i].end # NoTime
                  /\ uploads[j].t - uploads[i].end > CooldownTicks
    /\ Suppressed =>
         Cardinality({i \in 1..Len(uploads) :
                        uploads[i].end >= now - CooldownTicks}) <= 1

\* A qualifying frame within COOLDOWN of the frame that uploaded is suppressed
C1_Witness ==
    /\ Suppressed
    /\ Len(uploads) = 1
    /\ now > uploads[1].t
    /\ now - uploads[1].t <= CooldownTicks

(* C2 as stated: a qualifying frame more than COOLDOWN after a frame that   *)
(* triggered an upload attempt triggers its own attempt, however long the   *)
(* earlier upload took.                                                     *)
C2_Original ==
    \A i \in 1..Len(uploads) :
        (pc = "imshow" /\ detected /\ now - uploads[i].t > CooldownTicks) => up

(* C2: cooldown, release half, amended.  A qualifying frame whose time()    *)
(* read at the gate is more than COOLDOWN after the completion (an.py:81)   *)
(* of the most recent earlier upload attempt triggers its own attempt.      *)
C2_ReleaseAfterCompletion ==
    (Suppressed /\ uploads # <<>>) =>
        now - uploads[Len(uploads)].end <= CooldownTicks

\* A second attempt after a first one that took time to complete
C2_Witness ==
    /\ Uploaded
    /\ Len(uploads) = 2
    /\ uploads[1].end > uploads[1].t
    /\ uploads[2].t - uploads[1].end > CooldownTicks

(* C3 as stated: on every way the process ends after the capture device was *)
(* created, the camera-open failure included, the device is released and    *)
(* the windows are destroyed.                                               *)
C3_Original ==
    pc = "exited" => (cap = "released" /\ windows = "destroyed")

(* C3: cleanup, amended.  Whenever the process leaves the main loop (quit   *)
(* key, end of stream, Ctrl+C inside the try block, an uncaught error of an *)
(* iteration) the device is released and the windows are destroyed before   *)
(* the process ends.                                                        *)
C3_CleanupOnLoopExit ==
    (pc = "exited" /\ exitcause \in LoopExits) =>
        (cap = "released" /\ windows = "destroyed")

\* The process ended after an uncaught error of an iteration
C3_Witness ==
    /\ pc = "exited"
    /\ exitcause \in RaiseSites
    /\ cap = "released"
    /\ windows = "destroyed"

(* C4: the first frame of a run with a qualifying detection always triggers *)
(* an upload attempt, whatever the clock reads.                             *)
C4_FirstAlwaysUploads ==
    (pc = "imshow" /\ detected /\ nqual = 1) => up

(* C5: last_sent is the time of the last successful upload; a failed        *)
(* attempt leaves it unchanged.                                             *)
C5_LastSuccessful ==
    Uploaded => last_sent = LastOkEnd(uploads)

(* C6: no error raised during an upload attempt (snapshot write, open,     *)
(* POST) ends the loop.                                                     *)
C6_UploadErrorsNonFatal ==
    exitcause \notin {"imwrite", "post"}

(* C7: allow-list filtering.  detected is true iff some detection of the    *)
(* frame has a label in ANIMALS; only allow-listed detections are drawn,    *)
(* one box each; an iteration enters the upload branch only for a frame     *)
(* with an allow-listed detection.                                          *)
C7_AllowList ==
    /\ detected <=> (\E i \in DOMAIN df : df[i] \in ANIMALS)
    /\ \A k \in DOMAIN drawn : drawn[k] \in ANIMALS
    /\ Len(drawn) = Cardinality({i \in DOMAIN df : df[i] \in ANIMALS})
    /\ (up \/ Attempting) => (\E i \in DOMAIN df : df[i] \in ANIMALS)

\* A frame with detections, none allow-listed, with the cooldown elapsed
C7_Witness ==
    /\ pc = "imshow"
    /\ df # <<>>
    /\ \A i \in DOMAIN df : df[i] \notin ANIMALS
    /\ ~up
    /\ drawn = <<>>
    /\ now - last_sent > CooldownTicks

(* C8: the upload decision is  any_match AND now - last_sent > COOLDOWN,    *)
(* strictly: an attempt starts only for a qualifying frame read more than   *)
(* COOLDOWN after last_sent, and a frame is passed over only if it does not *)
(* qualify or at most COOLDOWN has elapsed.                                 *)
C8_GateDecision ==
    /\ Attempting =>
         (detected /\ uploads[Len(uploads)].t - last_sent > CooldownTicks)
    /\ (pc = "imshow" /\ ~up) =>
         ~(detected /\ now - last_sent > CooldownTicks)

\* Exactly COOLDOWN elapsed: no upload
C8_Witness ==
    /\ Suppressed
    /\ now - last_sent = CooldownTicks

(* C9 as stated: the loop is left only by end of stream, the quit key or an *)
(* interrupt.                                                               *)
C9_Original ==
    Stopping => exitcause \in {"eos", "quit", "interrupt"}

(* C9: loop lifecycle, amended.  RUNNING is left only by end of stream, the *)
(* quit key, an interrupt, or an uncaught error raised in an iteration;     *)
(* once STOPPING the loop never runs again and no frame is captured,        *)
(* inferred on, uploaded or displayed; STOPPED is reached with the device   *)
(* released and the windows destroyed.                                      *)
C9_Lifecycle ==
    /\ [](Stopping => exitcause \in LoopExits)
    /\ [][(Stopping \/ Stopped) =>
            /\ (Stopping' \/ Stopped')
            /\ UNCHANGED <<df, detected, drawn, nqual, up, uploads, files,
                           last_sent, filename>>
            /\ windows' \in {windows, "destroyed"}]_vars
    /\ [](Stopped => (cap = "released" /\ windows = "destroyed"))

\* STOPPING after model(frame) raised, the device already released
C9_Witness ==
    /\ pc = "destroy"
    /\ exitcause = "infer"
    /\ cap = "released"

(* C10: snapshot files are never overwritten within a run: any two upload   *)
(* attempts write to distinct file names.                                   *)
C10_DistinctNames ==
    /\ ~overwrote
    /\ \A i, j \in 1..Len(uploads) :
         (i < j /\ uploads[j].name # NoTime) =>
             uploads[i].name # uploads[j].name

\* Two snapshots on disk
C10_Witness ==
    /\ Len(uploads) = 2
    /\ Cardinality(files) = 2
    /\ uploads[2].t - uploads[1].t < 2 * CooldownTicks + TicksPerSec

====
